---- MODULE Spec2Model ----
(***************************************************************************)
(* Edge request handler of codeinred.workers: URL classification, the      *)
(* trailing-slash redirect, the asset fetch with its /404.html fallback,   *)
(* the fixed security headers and the extension-based cache policy.        *)
(*                                                                         *)
(* Two scripts are shipped: src/unnamed/part_000 (getProperties, two cache *)
(* tables) and src/workers-site/index.js (inline classification, one cache *)
(* table).  The variable script says which one is deployed.                *)
(*                                                                         *)
(* A string is a sequence of tokens.  "/", "." and "?" are the characters  *)
(* the code searches for; every other token is a run of characters that    *)
(* contains none of them, so lastIndexOf/substr/endsWith/includes on token *)
(* sequences agree with the JavaScript string operations.                  *)
(***************************************************************************)
EXTENDS Integers, Sequences, FiniteSets, TLC

\* longest URL tail (tokens after the origin) a request is drawn from
MaxLen == 4

Words == {"css", "ttf", "woff", "woff2", "js", "png", "jpg", "jpeg", "webp",
          "svg", "ico", "json", "html", "CSS"}

Alphabet(w) == {"/", ".", "?", "a", w}

Strings(w) == UNION {[1..n -> Alphabet(w)] : n \in 0..MaxLen}

Scheme == <<"https:", "/", "/">>

Origin == Scheme \o <<"site">>

Absent == "<absent>"

----------------------------------------------------------------------------
(* JavaScript string primitives, 0-based indices, -1 for "not found" *)

endsWith(s, c) == Len(s) > 0 /\ s[Len(s)] = c

lastIndexOf(s, c) ==
  LET I == {i \in 1..Len(s) : s[i] = c}
  IN IF I = {} THEN -1 ELSE (CHOOSE i \in I : \A j \in I : j <= i) - 1

indexOf(s, c) ==
  LET I == {i \in 1..Len(s) : s[i] = c}
  IN IF I = {} THEN -1 ELSE (CHOOSE i \in I : \A j \in I : i <= j) - 1

substr(s, start) == SubSeq(s, start + 1, Len(s))

----------------------------------------------------------------------------
(* part_000: getProperties *)

getProperties_DotDropped(url_string) ==
  LET endsWithSlash == endsWith(url_string, "/")
      nameStartIndex == lastIndexOf(url_string, "/")
      atRoot == nameStartIndex = -1
      filename == substr(url_string, nameStartIndex)
      extStartIndex == lastIndexOf(filename, ".")
  IN IF endsWithSlash
     THEN [isFile |-> FALSE, fileExtension |-> <<>>, missingSlash |-> FALSE, atRoot |-> FALSE]
     ELSE IF atRoot
     THEN [isFile |-> FALSE, fileExtension |-> <<>>, missingSlash |-> FALSE, atRoot |-> TRUE]
     ELSE IF extStartIndex = -1
     THEN [isFile |-> FALSE, fileExtension |-> <<>>, missingSlash |-> TRUE, atRoot |-> FALSE]
     ELSE [isFile |-> TRUE, fileExtension |-> substr(filename, extStartIndex + 1),
           missingSlash |-> FALSE, atRoot |-> FALSE]

getProperties(url_string) ==
  LET endsWithSlash == endsWith(url_string, "/")
      nameStartIndex == lastIndexOf(url_string, "/")
      atRoot == nameStartIndex = -1
      filename == substr(url_string, nameStartIndex)
      extStartIndex == lastIndexOf(filename, ".")
  IN IF endsWithSlash
     THEN [isFile |-> FALSE, fileExtension |-> <<>>, missingSlash |-> FALSE, atRoot |-> FALSE]
     ELSE IF atRoot
     THEN [isFile |-> FALSE, fileExtension |-> <<>>, missingSlash |-> FALSE, atRoot |-> TRUE]
     ELSE IF extStartIndex = -1
     THEN [isFile |-> FALSE, fileExtension |-> <<>>, missingSlash |-> TRUE, atRoot |-> FALSE]
     ELSE [isFile |-> TRUE, fileExtension |-> substr(filename, extStartIndex),
           missingSlash |-> FALSE, atRoot |-> FALSE]

(* workers-site/index.js: the same classification written inline in        *)
(* handleEvent; the early return of the redirect is the missingSlash case, *)
(* and notAtRoot is kept as its negation atRoot.                           *)
classifyInline(url_string) ==
  LET endsWithSlash == endsWith(url_string, "/")
      nameStartIndex == lastIndexOf(url_string, "/")
      notAtRoot == nameStartIndex # -1
      filename == substr(url_string, nameStartIndex)
      extStartIndex == lastIndexOf(filename, ".")
  IN IF ~endsWithSlash /\ notAtRoot
     THEN IF extStartIndex = -1
          THEN [isFile |-> FALSE, fileExtension |-> <<>>, missingSlash |-> TRUE, atRoot |-> FALSE]
          ELSE [isFile |-> TRUE, fileExtension |-> substr(filename, extStartIndex),
                missingSlash |-> FALSE, atRoot |-> FALSE]
     ELSE [isFile |-> FALSE, fileExtension |-> <<>>, missingSlash |-> FALSE,
           atRoot |-> ~endsWithSlash /\ ~notAtRoot]

----------------------------------------------------------------------------
(* The platform's URL class: new URL(s) parses an absolute URL or throws;  *)
(* href serialises the record.  Parsing adds the root path when the host   *)
(* is followed by no path, and removes "." and ".." path segments.         *)

RECURSIVE Split(_, _)
Split(s, c) ==
  LET i == indexOf(s, c)
  IN IF i = -1 THEN <<s>>
     ELSE <<SubSeq(s, 1, i)>> \o Split(substr(s, i + 1), c)

RECURSIVE RemoveDotSegments(_, _, _)
RemoveDotSegments(segs, i, out) ==
  IF i > Len(segs) THEN out
  ELSE LET seg == segs[i]
           last == i = Len(segs)
           popped == IF Len(out) > 0 THEN SubSeq(out, 1, Len(out) - 1) ELSE out
       IN IF seg = <<".", ".">>
          THEN RemoveDotSegments(segs, i + 1, IF last THEN popped \o << <<>> >> ELSE popped)
          ELSE IF seg = <<".">>
          THEN RemoveDotSegments(segs, i + 1, IF last THEN out \o << <<>> >> ELSE out)
          ELSE RemoveDotSegments(segs, i + 1, Append(out, seg))

\* s without its scheme: host, then path, then query
AfterScheme(s) == substr(s, Len(Scheme))

HostEnd(r) ==
  LET I == {i \in 1..Len(r) : r[i] \in {"/", "?"}}
  IN IF I = {} THEN Len(r) ELSE (CHOOSE i \in I : \A j \in I : i <= j) - 1

\* new URL(s) throws a TypeError unless s is an absolute URL with a host
ParseOK(s) ==
  /\ Len(s) > Len(Scheme)
  /\ SubSeq(s, 1, Len(Scheme)) = Scheme
  /\ HostEnd(AfterScheme(s)) > 0

NewURL(s) ==
  LET r == AfterScheme(s)
      h == HostEnd(r)
      rest == substr(r, h)
      q == indexOf(rest, "?")
      rawPath == IF q = -1 THEN rest ELSE SubSeq(rest, 1, q)
      segs == IF rawPath = <<>> THEN << <<>> >>
              ELSE RemoveDotSegments(Split(substr(rawPath, 1), "/"), 1, <<>>)
  IN [host |-> SubSeq(r, 1, h),
      path |-> IF segs = <<>> THEN << <<>> >> ELSE segs,
      hasQuery |-> q # -1,
      query |-> IF q = -1 THEN <<>> ELSE substr(rest, q + 1)]

RECURSIVE JoinPath(_, _)
JoinPath(segs, i) ==
  IF i > Len(segs) THEN <<>> ELSE <<"/">> \o segs[i] \o JoinPath(segs, i + 1)

href(u) ==
  Scheme \o u.host \o JoinPath(u.path, 1)
         \o (IF u.hasQuery THEN <<"?">> \o u.query ELSE <<>>)

origin(u) == Scheme \o u.host

\* the URL of a request object is always the serialisation of a parsed URL
IsSerialized(s) == ParseOK(s) /\ href(NewURL(s)) = s

----------------------------------------------------------------------------
(* Responses.  A header map gives every header name its value or Absent.   *)

SecurityHeaderNames == {"X-XSS-Protection", "X-Content-Type-Options",
                        "X-Frame-Options", "Referrer-Policy", "Feature-Policy"}

HeaderNames == SecurityHeaderNames \cup {"Cache-Control", "Content-Type", "Location"}

NoHeaders == [n \in HeaderNames |-> Absent]

NoResponse == [status |-> 0, body |-> "", headers |-> NoHeaders]

NoError == [message |-> "", string |-> ""]

NoProperties == [isFile |-> FALSE, fileExtension |-> <<>>, missingSlash |-> FALSE,
                 atRoot |-> FALSE]

\* headers.set(name, value)
HeadersSet(h, name, value) == [h EXCEPT ![name] = value]

(* What the asset store can answer.  Assets come back with status 200, or  *)
(* 206 from the edge cache, with headers of their own, among them values   *)
(* for the headers the handler writes.                                     *)
Assets ==
  { [status |-> 200, body |-> "asset bytes",
     headers |-> [NoHeaders EXCEPT !["Content-Type"] = "text/css"]],
    [status |-> 206, body |-> "partial asset bytes",
     headers |-> [NoHeaders EXCEPT !["Content-Type"] = "text/html",
                                   !["Cache-Control"] = "no-cache",
                                   !["X-Frame-Options"] = "SAMEORIGIN",
                                   !["Feature-Policy"] = "camera 'self'"]] }

NotFoundAssets ==
  { [status |-> 200, body |-> "404 page",
     headers |-> [NoHeaders EXCEPT !["Content-Type"] = "text/html"]],
    [status |-> 206, body |-> "404 page, cached",
     headers |-> [NoHeaders EXCEPT !["Content-Type"] = "text/html",
                                   !["Cache-Control"] = "max-age=0",
                                   !["Referrer-Policy"] = "no-referrer"]] }

\* errors of the primary fetch: message and toString() form
PrimaryErrors ==
  { [message |-> "could not find asset", string |-> "NotFoundError: could not find asset"],
    [message |-> "", string |-> "Error"] }

FallbackErrors ==
  { [message |-> "could not find 404.html", string |-> "NotFoundError: could not find 404.html"] }

NotFoundPath == <<"/", "404", ".", "html">>

----------------------------------------------------------------------------
(* setCachePolicy *)

longTermCache == { <<".", "css">>, <<".", "ttf">>, <<".", "woff">>, <<".", "woff2">>,
                   <<".", "js">>, <<".", "png">>, <<".", "jpg">>, <<".", "jpeg">>,
                   <<".", "webp">>, <<".", "svg">> }

shortTermCache == { <<".", "ico">>, <<".", "json">> }

safeToCache == { <<".", "css">>, <<".", "ttf">>, <<".", "woff">>, <<".", "woff2">>,
                 <<".", "js">> }

setCachePolicy_DefaultPolicy(headers, extension) ==
  IF extension \in longTermCache
  THEN HeadersSet(headers, "Cache-Control", "max-age=31536000, public")
  ELSE IF extension \in shortTermCache
  THEN HeadersSet(headers, "Cache-Control", "max-age=604800, public")
  ELSE HeadersSet(headers, "Cache-Control", "no-cache")

\* part_000
setCachePolicy(headers, extension) ==
  IF extension \in longTermCache
  THEN HeadersSet(headers, "Cache-Control", "max-age=31536000, public")
  ELSE IF extension \in shortTermCache
  THEN HeadersSet(headers, "Cache-Control", "max-age=604800, public")
  ELSE headers

\* workers-site/index.js
setCachePolicy_site(headers, extension) ==
  IF extension \in safeToCache
  THEN HeadersSet(headers, "Cache-Control", "max-age=31536000")
  ELSE headers

----------------------------------------------------------------------------
(* Pieces of handleEvent *)

\* Response.redirect(new URL(url), 301): throws when url does not parse
ResponseRedirect_SameURL(url) ==
  IF ParseOK(url)
  THEN [kind |-> "return",
        value |-> [status |-> 301, body |-> "",
                   headers |-> [NoHeaders EXCEPT !["Location"] = href(NewURL(SubSeq(url, 1, Len(url) - 1)))]]]
  ELSE [kind |-> "throw", value |-> NoResponse]

ResponseRedirect(url) ==
  IF ParseOK(url)
  THEN [kind |-> "return",
        value |-> [status |-> 301, body |-> "",
                   headers |-> [NoHeaders EXCEPT !["Location"] = href(NewURL(url))]]]
  ELSE [kind |-> "throw", value |-> NoResponse]

SetSecurityHeaders_KeepExisting(h) ==
  [n \in HeaderNames |->
     IF n \in SecurityHeaderNames /\ h[n] # Absent THEN h[n]
     ELSE IF n = "X-XSS-Protection" THEN "1; mode=block"
     ELSE IF n = "X-Content-Type-Options" THEN "nosniff"
     ELSE IF n = "X-Frame-Options" THEN "DENY"
     ELSE IF n = "Referrer-Policy" THEN "unsafe-url"
     ELSE IF n = "Feature-Policy" THEN "none"
     ELSE h[n]]

\* the five response.headers.set calls
SetSecurityHeaders(h) ==
  HeadersSet(HeadersSet(HeadersSet(HeadersSet(HeadersSet(h,
    "X-XSS-Protection", "1; mode=block"),
    "X-Content-Type-Options", "nosniff"),
    "X-Frame-Options", "DENY"),
    "Referrer-Policy", "unsafe-url"),
    "Feature-Policy", "none")

(* new Response(page.body, page): page is converted to a ResponseInit by   *)
(* reading its status and headers properties, which works wherever the     *)
(* runtime defines them; then the five headers, then the cache policy.     *)
OkResponse(deployed, page_, props) ==
  LET base == SetSecurityHeaders(page_.headers)
      hdrs == IF props.isFile
              THEN IF deployed = "part_000"
                   THEN setCachePolicy(base, props.fileExtension)
                   ELSE setCachePolicy_site(base, props.fileExtension)
              ELSE base
  IN [status |-> page_.status, body |-> page_.body, headers |-> hdrs]

(* { ...notFoundResponse, status: 404 }: the spread copies the OWN          *)
(* enumerable properties of the Response.  Where the runtime defines        *)
(* status/headers as accessors on Response.prototype (the Fetch standard,   *)
(* and Workers from compatibility date 2022-01-31) nothing is copied and    *)
(* the init is { status: 404 }; where it defines them on the instance (the  *)
(* earlier Workers runtime) the headers are copied.                         *)
NotFoundResponse(onPrototype, nf) ==
  [status |-> 404, body |-> nf.body,
   headers |-> IF onPrototype THEN NoHeaders ELSE nf.headers]

ErrorResponse_InnerError(e_outer, e_inner_) ==
  [status |-> 500,
   body |-> IF e_inner_.message # "" THEN e_inner_.message ELSE e_inner_.string,
   headers |-> [NoHeaders EXCEPT !["Content-Type"] = "text/plain;charset=UTF-8"]]

(* new Response(e.message || e.toString(), { status: 500 }) after the inner *)
(* catch (e) {} has swallowed the fallback's error: e is the outer one.     *)
ErrorResponse(e_outer, e_inner_) ==
  [status |-> 500,
   body |-> IF e_outer.message # "" THEN e_outer.message ELSE e_outer.string,
   headers |-> [NoHeaders EXCEPT !["Content-Type"] = "text/plain;charset=UTF-8"]]

\* mapRequestToAsset of the fallback: `${new URL(req.url).origin}/404.html`
MapTo404(url) == IF ParseOK(url) THEN origin(NewURL(url)) \o NotFoundPath ELSE <<>>

----------------------------------------------------------------------------
VARIABLES
  script,              \* "part_000" or "workers_site": the deployed file
  gettersOnPrototype,  \* runtime: Response properties are prototype accessors
  pc,                  \* position of the request in handleEvent
  url_string,          \* event.request.url
  properties,          \* the classification
  kvCalls,             \* the getAssetFromKV calls started, in order
  page,                \* result of the primary fetch
  notFoundResponse,    \* result of the fallback fetch
  e,                   \* error caught by the outer catch
  e_inner,             \* error caught (and dropped) by the inner catch
  respondedWith,       \* what the listener passed to event.respondWith
  response             \* the response the handler returned

vars == <<script, gettersOnPrototype, pc, url_string, properties, kvCalls, page,
          notFoundResponse, e, e_inner, respondedWith, response>>

NoAsset == NoResponse

Terminal == {"REDIRECT", "RESPOND_OK", "RESPOND_404", "RESPOND_500"}

Idle ==
  /\ pc = "idle"
  /\ url_string = <<>>
  /\ properties = NoProperties
  /\ kvCalls = <<>>
  /\ page = NoAsset
  /\ notFoundResponse = NoAsset
  /\ e = NoError
  /\ e_inner = NoError
  /\ respondedWith = "nothing"
  /\ response = NoResponse

Init ==
  /\ script \in {"part_000", "workers_site"}
  /\ gettersOnPrototype \in BOOLEAN
  /\ Idle

(* The 'fetch' listener.  handleEvent is an async function: the call        *)
(* returns a promise and never throws, so the try block completes with      *)
(* event.respondWith(promise) and the catch block is not entered.  Whatever *)
(* handleEvent throws later rejects that promise.                           *)
Listener(u) ==
  /\ pc = "idle"
  /\ pc' = "START"
  /\ url_string' = u
  /\ respondedWith' = "promise of handleEvent"
  /\ UNCHANGED <<script, gettersOnPrototype, properties, kvCalls, page,
                 notFoundResponse, e, e_inner, response>>

\* the runtime delivers serialised absolute URLs
FetchEvent ==
  /\ pc = "idle"
  /\ \E w \in Words : \E t \in Strings(w) :
        /\ IsSerialized(Origin \o t)
        /\ Listener(Origin \o t)

\* any string as event.request.url
FetchEventAnyString ==
  /\ pc = "idle"
  /\ \E w \in Words : \E t \in Strings(w) : \E prefix \in {<<>>, Origin} :
        Listener(prefix \o t)

(* handleEvent up to the first await: classify, then either return the     *)
(* redirect or start the primary fetch                                     *)
HandleEventStart ==
  /\ pc = "START"
  /\ LET props == IF script = "part_000" THEN getProperties(url_string)
                  ELSE classifyInline(url_string)
         r == ResponseRedirect(url_string \o <<"/">>)
     IN /\ properties' = props
        /\ pc' = IF ~props.missingSlash THEN "FETCH_ASSET"
                 ELSE IF r.kind = "throw" THEN "REJECTED" ELSE "REDIRECT"
        /\ response' = IF props.missingSlash /\ r.kind = "return" THEN r.value
                       ELSE response
        /\ kvCalls' = IF props.missingSlash THEN kvCalls
                      ELSE Append(kvCalls, [remapped |-> FALSE, url |-> url_string])
  /\ UNCHANGED <<script, gettersOnPrototype, url_string, page, notFoundResponse,
                 e, e_inner, respondedWith>>

\* await getAssetFromKV(event, options) resolves
PrimarySucceeds(p) ==
  /\ pc = "FETCH_ASSET"
  /\ page' = p
  /\ response' = OkResponse(script, p, properties)
  /\ pc' = "RESPOND_OK"
  /\ UNCHANGED <<script, gettersOnPrototype, url_string, properties, kvCalls,
                 notFoundResponse, e, e_inner, respondedWith>>

\* it rejects: DEBUG is false, so the fallback fetch is started
PrimaryFails(err) ==
  /\ pc = "FETCH_ASSET"
  /\ e' = err
  /\ kvCalls' = Append(kvCalls, [remapped |-> TRUE, url |-> MapTo404(url_string)])
  /\ pc' = "FETCH_404"
  /\ UNCHANGED <<script, gettersOnPrototype, url_string, properties, page,
                 notFoundResponse, e_inner, respondedWith, response>>

NotFoundSucceeds(nf) ==
  /\ pc = "FETCH_404"
  /\ ParseOK(url_string)
  /\ notFoundResponse' = nf
  /\ response' = NotFoundResponse(gettersOnPrototype, nf)
  /\ pc' = "RESPOND_404"
  /\ UNCHANGED <<script, gettersOnPrototype, url_string, properties, kvCalls,
                 page, e, e_inner, respondedWith>>

NotFoundFails_Retry(err) ==
  /\ pc = "FETCH_404"
  /\ e_inner' = err
  /\ IF Len(kvCalls) < 3
     THEN /\ kvCalls' = Append(kvCalls, [remapped |-> TRUE, url |-> MapTo404(url_string)])
          /\ pc' = "FETCH_404"
          /\ response' = response
     ELSE /\ kvCalls' = kvCalls
          /\ pc' = "RESPOND_500"
          /\ response' = ErrorResponse(e, err)
  /\ UNCHANGED <<script, gettersOnPrototype, url_string, properties, page,
                 notFoundResponse, e, respondedWith>>

NotFoundFails(err) ==
  /\ pc = "FETCH_404"
  /\ e_inner' = err
  /\ kvCalls' = kvCalls
  /\ response' = ErrorResponse(e, err)
  /\ pc' = "RESPOND_500"
  /\ UNCHANGED <<script, gettersOnPrototype, url_string, properties, page,
                 notFoundResponse, e, respondedWith>>

\* the response (or the rejection) is handed to the runtime; next request
Respond ==
  /\ pc \in Terminal \cup {"REJECTED"}
  /\ pc' = "idle"
  /\ url_string' = <<>>
  /\ properties' = NoProperties
  /\ kvCalls' = <<>>
  /\ page' = NoAsset
  /\ notFoundResponse' = NoAsset
  /\ e' = NoError
  /\ e_inner' = NoError
  /\ respondedWith' = "nothing"
  /\ response' = NoResponse
  /\ UNCHANGED <<script, gettersOnPrototype>>

Handle ==
  \/ HandleEventStart
  \/ \E p \in Assets : PrimarySucceeds(p)
  \/ \E err \in PrimaryErrors : PrimaryFails(err)
  \/ \E nf \in NotFoundAssets : NotFoundSucceeds(nf)
  \/ \E err \in FallbackErrors : NotFoundFails(err)
  \/ Respond

Next == FetchEvent \/ Handle

Spec == Init /\ [][Next]_vars

NextAnyString == FetchEventAnyString \/ Handle

SpecAnyString == Init /\ [][NextAnyString]_vars

----------------------------------------------------------------------------
(* Vocabulary of the properties, written without the classifier *)

HasChar(s, c) == \E i \in 1..Len(s) : s[i] = c

Classified == pc \notin {"idle", "START"}

\* no trailing "/", some "/", and no "." after the last "/"
LooksLikeDirectory(s) ==
  /\ ~endsWith(s, "/")
  /\ \E i \in 1..Len(s) :
        /\ s[i] = "/"
        /\ \A j \in (i + 1)..Len(s) : s[j] \notin {"/", "."}

\* the last segment of the path of a request URL (query excluded)
FinalPathSegment(s) == LET path == NewURL(s).path IN path[Len(path)]

\* from the last "." of a segment to its end
ExtensionOf(seg) ==
  LET i == CHOOSE k \in 1..Len(seg) :
              seg[k] = "." /\ \A j \in (k + 1)..Len(seg) : seg[j] # "."
  IN SubSeq(seg, i, Len(seg))

WritesNoPolicyHeader(r) ==
  \A n \in SecurityHeaderNames \cup {"Cache-Control"} : r.headers[n] = Absent

PrimaryCalls == {i \in 1..Len(kvCalls) : ~kvCalls[i].remapped}

FallbackCalls == {i \in 1..Len(kvCalls) : kvCalls[i].remapped}

----------------------------------------------------------------------------
(* C1: a request URL with no trailing "/", at least one "/" and no "."     *)
(* after its last "/" is answered by a 301 redirect to the same URL        *)
(* string with "/" appended; the asset store is not invoked and neither a  *)
(* security header nor Cache-Control is set.                               *)
C1_RedirectMissingSlash ==
  (Classified /\ LooksLikeDirectory(url_string)) =>
     /\ pc = "REDIRECT"
     /\ response.status = 301
     /\ response.headers["Location"] = url_string \o <<"/">>
     /\ kvCalls = <<>>
     /\ WritesNoPolicyHeader(response)

C1_Witness ==
  /\ pc = "REDIRECT"
  /\ LooksLikeDirectory(url_string)
  /\ HasChar(url_string, "?")
  /\ response.status = 301

(* C2: after a successful primary fetch the response has the asset's body  *)
(* and status and the five security headers with their fixed values, for   *)
(* files and non-files, whatever the asset carried for those headers.      *)
C2_SecurityHeadersOnSuccess ==
  pc = "RESPOND_OK" =>
     /\ response.body = page.body
     /\ response.status = page.status
     /\ response.headers["X-XSS-Protection"] = "1; mode=block"
     /\ response.headers["X-Content-Type-Options"] = "nosniff"
     /\ response.headers["X-Frame-Options"] = "DENY"
     /\ response.headers["Referrer-Policy"] = "unsafe-url"
     /\ response.headers["Feature-Policy"] = "none"

C2_Witness ==
  /\ pc = "RESPOND_OK"
  /\ ~properties.isFile
  /\ page.status = 206
  /\ page.headers["X-Frame-Options"] = "SAMEORIGIN"
  /\ response.headers["X-Frame-Options"] = "DENY"

(* C3: after a successful primary fetch of a URL classified isFile,        *)
(* Cache-Control is "max-age=31536000, public" for the ten long-term       *)
(* extensions and "max-age=604800, public" for .ico and .json, in both     *)
(* shipped scripts.                                                        *)
C3_CachePolicyInBothScripts ==
  (pc = "RESPOND_OK" /\ properties.isFile) =>
     /\ properties.fileExtension \in longTermCache
          => response.headers["Cache-Control"] = "max-age=31536000, public"
     /\ properties.fileExtension \in shortTermCache
          => response.headers["Cache-Control"] = "max-age=604800, public"

(* C4: after a successful primary fetch, when the URL is not a file or its *)
(* extension is in neither table, Cache-Control is what the asset carried. *)
C4_CacheControlUntouched ==
  (/\ pc = "RESPOND_OK"
   /\ \/ ~properties.isFile
      \/ properties.fileExtension \notin longTermCache \cup shortTermCache) =>
     response.headers["Cache-Control"] = page.headers["Cache-Control"]

C4_Witness ==
  /\ pc = "RESPOND_OK"
  /\ properties.isFile
  /\ properties.fileExtension = <<".", "CSS">>
  /\ page.headers["Cache-Control"] = "no-cache"
  /\ response.headers["Cache-Control"] = "no-cache"

(* C5: when the primary fetch fails and the /404.html fetch succeeds, the  *)
(* response has status 404, the 404 asset's body and exactly the 404       *)
(* asset's headers; no security header or cache policy is added.           *)
C5_NotFoundKeepsAssetHeaders ==
  pc = "RESPOND_404" =>
     /\ response.status = 404
     /\ response.body = notFoundResponse.body
     /\ response.headers = notFoundResponse.headers
     /\ kvCalls[Len(kvCalls)] = [remapped |-> TRUE,
                                 url |-> origin(NewURL(url_string)) \o NotFoundPath]

(* C6: when both fetches fail the response has status 500, its body is the *)
(* primary error's message, or its string form when the message is empty, *)
(* never the fallback's error, and it has no security header and no        *)
(* Cache-Control.                                                          *)
C6_ErrorResponseOfPrimaryError ==
  pc = "RESPOND_500" =>
     /\ response.status = 500
     /\ response.body = (IF e.message # "" THEN e.message ELSE e.string)
     /\ response.body \notin {e_inner.message, e_inner.string}
     /\ WritesNoPolicyHeader(response)

C6_Witness ==
  /\ pc = "RESPOND_500"
  /\ e.message = ""
  /\ e_inner \in FallbackErrors
  /\ response.body = "Error"

C8_ExtensionOfFinalPathSegment ==
  (Classified /\ ParseOK(url_string)
     /\ HasChar(FinalPathSegment(url_string), ".")) =>
     /\ properties.isFile
     /\ properties.fileExtension = ExtensionOf(FinalPathSegment(url_string))

(* C9: a run follows only START -> REDIRECT | FETCH_ASSET, FETCH_ASSET ->  *)
(* RESPOND_OK | FETCH_404, FETCH_404 -> RESPOND_404 | RESPOND_500; the     *)
(* primary fetch is started at most once, the fallback at most once and    *)
(* only after the primary has failed, nothing is retried, and the run has  *)
(* a response exactly when it is in one of the four terminal states.       *)
C9_AllowedSteps ==
  { <<"idle", "START">>, <<"START", "REDIRECT">>, <<"START", "FETCH_ASSET">>,
    <<"FETCH_ASSET", "RESPOND_OK">>, <<"FETCH_ASSET", "FETCH_404">>,
    <<"FETCH_404", "RESPOND_404">>, <<"FETCH_404", "RESPOND_500">> }
  \cup {<<t, "idle">> : t \in Terminal}

C9_FetchDiscipline ==
  /\ pc \in {"idle", "START", "FETCH_ASSET", "FETCH_404"} \cup Terminal
  /\ pc \in Terminal <=> response # NoResponse
  /\ Cardinality(PrimaryCalls) <= 1
  /\ Cardinality(FallbackCalls) <= 1
  /\ PrimaryCalls \subseteq {1}
  /\ FallbackCalls \subseteq {2}
  /\ FallbackCalls # {} => (PrimaryCalls = {1} /\ e \in PrimaryErrors /\ page = NoAsset)
  /\ pc \in {"idle", "START", "REDIRECT"} => kvCalls = <<>>
  /\ pc \in {"FETCH_ASSET", "RESPOND_OK"} => (PrimaryCalls = {1} /\ FallbackCalls = {})
  /\ pc \in {"FETCH_404", "RESPOND_404", "RESPOND_500"} => FallbackCalls = {2}
  /\ pc = "REDIRECT" => response.status = 301
  /\ pc = "RESPOND_OK" => response.status = page.status
  /\ pc = "RESPOND_404" => response.status = 404
  /\ pc = "RESPOND_500" => response.status = 500

C9_Step == <<pc, pc'>> \in C9_AllowedSteps

(* C9: the fetch discipline holds in every state and every step of a run   *)
(* is one of the allowed transitions.                                      *)
C9_StateMachine ==
  /\ []C9_FetchDiscipline
  /\ [][C9_Step]_vars

C9_Witness ==
  /\ pc = "RESPOND_500"
  /\ Len(kvCalls) = 2
  /\ ~kvCalls[1].remapped
  /\ kvCalls[2].remapped

(* C10: for every input string the classification of getProperties has a  *)
(* non-empty fileExtension when isFile, never both missingSlash and        *)
(* isFile, neither of them when atRoot, and an empty fileExtension when    *)
(* not isFile.                                                             *)
C10_ClassificationInvariant ==
  (Classified /\ script = "part_000") =>
     /\ properties = getProperties(url_string)
     /\ properties.isFile => properties.fileExtension # <<>>
     /\ ~(properties.missingSlash /\ properties.isFile)
     /\ properties.atRoot => (~properties.isFile /\ ~properties.missingSlash)
     /\ ~properties.isFile => properties.fileExtension = <<>>

C10_Witness ==
  /\ script = "part_000"
  /\ pc = "FETCH_ASSET"
  /\ properties.atRoot
  /\ HasChar(url_string, ".")

====
